---- MODULE Spec2Model ----
(***************************************************************************)
(* Model of sgn.py: the subtitle extraction -> classification -> remux     *)
(* pipeline (process_anime_file), the upload handler (handle_file), the    *)
(* retrieval handler (handle_download) with the shared app.file_cache, and *)
(* the line classifier (create_sign_subtitles).                            *)
(*                                                                         *)
(* Handlers are coroutines on one event loop: a handler runs without       *)
(* interruption from one await to the next, so every action below is the   *)
(* code between two awaits.  process_anime_file contains no await (the     *)
(* external tools are run with the blocking subprocess.run), so its stages *)
(* are steps taken while the handler holds the loop (variable busy).       *)
(***************************************************************************)
EXTENDS FiniteSets, Integers, Sequences, TLC

VARIABLES
  files,         \* storage: path -> content of the file there, or NoFile
  file_cache,    \* app.file_cache: key -> (output_path, proper_name), or NoEntry
  up,            \* upload handlers (handle_file), one record per invocation
  down,          \* retrieval handlers (handle_download), one record per invocation
  busy,          \* the upload handler that runs blocking code on the loop, or 0
  chain,         \* history: the put(k) . take(k) . take(k) sequence in progress
  lines,         \* create_sign_subtitles: content.split('\n')
  idx,           \* create_sign_subtitles: position of the for loop in lines
  filtered_lines,\* create_sign_subtitles: the lines emitted so far
  in_events,     \* create_sign_subtitles: the section flag
  cpc            \* create_sign_subtitles: "off", "loop" or "done"

vars == <<files, file_cache, up, down, busy, chain,
          lines, idx, filtered_lines, in_events, cpc>>

botVars == <<files, file_cache, up, down, busy, chain>>
clsVars == <<lines, idx, filtered_lines, in_events, cpc>>

-----------------------------------------------------------------------------
(* Bounds of the model.                                                    *)

MaxUploads == 2

MaxDownloads == 2

\* Handlers in flight at once (the client runs at most `workers` of them).
MaxInFlight == 2

Uploads == 1..MaxUploads

Downloads == 1..MaxDownloads

-----------------------------------------------------------------------------
(* Characters and strings.  A text is a sequence of one-character strings. *)

IsSpace(c) == c \in {" ", "\t"}

UpperOf ==
  [c \in {"a","c","d","e","g","h","i","l","n","o","p","r","s","t","v","w","x","y"} |->
     CASE c = "a" -> "A" [] c = "c" -> "C" [] c = "d" -> "D" [] c = "e" -> "E"
       [] c = "g" -> "G" [] c = "h" -> "H" [] c = "i" -> "I" [] c = "l" -> "L"
       [] c = "n" -> "N" [] c = "o" -> "O" [] c = "p" -> "P" [] c = "r" -> "R"
       [] c = "s" -> "S" [] c = "t" -> "T" [] c = "v" -> "V" [] c = "w" -> "W"
       [] c = "x" -> "X" [] c = "y" -> "Y"]

IsLower(c) == c \in DOMAIN UpperOf

IsUpper(c) == \E l \in DOMAIN UpperOf : UpperOf[l] = c

Upper(c) == IF IsLower(c) THEN UpperOf[c] ELSE c

Lower(c) == IF IsUpper(c) THEN CHOOSE l \in DOMAIN UpperOf : UpperOf[l] = c ELSE c

LowerStr(s) == [i \in 1..Len(s) |-> Lower(s[i])]

RECURSIVE LStrip(_)
LStrip(s) == IF s # <<>> /\ IsSpace(Head(s)) THEN LStrip(Tail(s)) ELSE s

RECURSIVE RStrip(_)
RStrip(s) ==
  IF s # <<>> /\ IsSpace(s[Len(s)]) THEN RStrip(SubSeq(s, 1, Len(s) - 1)) ELSE s

Strip(s) == RStrip(LStrip(s))

StartsWith(s, p) == Len(s) >= Len(p) /\ SubSeq(s, 1, Len(p)) = p

Contains(s, kw) ==
  \E i \in 1..(Len(s) - Len(kw) + 1) : SubSeq(s, i, i + Len(kw) - 1) = kw

RECURSIVE Flatten(_)
Flatten(s) == IF s = <<>> THEN "" ELSE Head(s) \o Flatten(Tail(s))

-----------------------------------------------------------------------------
(* File names, keys and paths.                                             *)

NoName == ""

Names == {"[G]_show_-_01.mkv", "Show - 01 [Jpn].mkv", "other_-_02.mkv"}

FileIds == {"fileA", "fileB"}

Md5Hex8(s) ==
  CASE s = "[G]_show_-_01.mkv"   -> "17f17e7e"
    [] s = "Show - 01 [Jpn].mkv" -> "2d0ef414"
    [] s = "other_-_02.mkv"      -> "b29ea7d6"
    [] s = "fileA"               -> "5e9f0c96"
    [] s = "fileB"               -> "eea3f377"

generate_file_key(file_id) == Md5Hex8(file_id)

Keys == {generate_file_key(f) : f \in FileIds}

\* anitopy.parse on the names of the model; "" is an absent element.
Parse(name) ==
  CASE name = "[G]_show_-_01.mkv" ->
         [anime_title |-> <<"s","h","o","w">>, episode_number |-> "01",
          anime_season |-> "", language |-> "", file_extension |-> "mkv"]
    [] name = "Show - 01 [Jpn].mkv" ->
         [anime_title |-> <<"S","h","o","w">>, episode_number |-> "01",
          anime_season |-> "", language |-> "", file_extension |-> "mkv"]
    [] name = "other_-_02.mkv" ->
         [anime_title |-> <<"o","t","h","e","r">>, episode_number |-> "02",
          anime_season |-> "", language |-> "", file_extension |-> "mkv"]

\* anitopy.parse(None) raises: a video message may carry no file name.
ParseRaises(name) == name = NoName

RECURSIVE CollapseSpaces(_)
CollapseSpaces(s) ==
  IF Len(s) < 2 THEN s
  ELSE IF IsSpace(s[1]) /\ IsSpace(s[2]) THEN CollapseSpaces(Tail(s))
  ELSE <<IF IsSpace(s[1]) THEN " " ELSE s[1]>> \o CollapseSpaces(Tail(s))

TitleCase(s) ==
  [i \in 1..Len(s) |->
     IF i = 1 \/ ~(IsLower(s[i-1]) \/ IsUpper(s[i-1])) THEN Upper(s[i]) ELSE Lower(s[i])]

clean_filename(filename) ==
  LET spaced == [i \in 1..Len(filename) |->
                   IF filename[i] \in {"[", "]", "_"} THEN " " ELSE filename[i]]
  IN  TitleCase(Strip(CollapseSpaces(spaced)))

build_proper_filename(parsed) ==
  LET anime_title == Flatten(clean_filename(parsed.anime_title))
      season_info == IF parsed.anime_season # "" THEN " S" \o parsed.anime_season ELSE ""
      language    == IF parsed.language # "" THEN parsed.language ELSE "Jpn"
  IN  anime_title \o season_info \o " - " \o parsed.episode_number
        \o " [" \o language \o "]." \o parsed.file_extension

\* Lines 191-192: proper_name, for each file name of the model.
ProperNameOf == [n \in Names |-> build_proper_filename(Parse(n))]

ProperName(name) == ProperNameOf[name]

TEMP_DIR == "/tmp/"

DownloadPath(name) == TEMP_DIR \o name

TempSub(name) == TEMP_DIR \o "temp_" \o Md5Hex8(name) \o ".ass"

TempSignSub(name) == TEMP_DIR \o "sign_" \o Md5Hex8(name) \o ".ass"

OutputPath(name) == TEMP_DIR \o ProperName(name)

Paths ==
  UNION {{DownloadPath(n), TempSub(n), TempSignSub(n), OutputPath(n)} : n \in Names}

-----------------------------------------------------------------------------
(* Values.                                                                 *)

NoFile == [kind |-> "none", by |-> 0]

NoEntry == [path |-> "", name |-> "", by |-> 0, good |-> FALSE]

NoRet == [path |-> "?", name |-> "?"]

NoChain == [key |-> "", path |-> "", name |-> "", takes |-> 0]

Exists(path) == files[path] # NoFile

Remove(fs, path) == [fs EXCEPT ![path] = NoFile]

\* A handler invocation: its position, its inputs and locals, and the record
\* of the pipeline run (which stages were invoked and which succeeded).
IdleUp ==
  [pc |-> "idle", big |-> FALSE, name |-> "", fid |-> "",
   exInv |-> FALSE, exOk |-> FALSE, clInv |-> FALSE, clOk |-> FALSE,
   mxInv |-> FALSE, mxOk |-> FALSE, raised |-> FALSE, ret |-> NoRet]

DoneUp == [IdleUp EXCEPT !.pc = "done"]

IdleDown == [pc |-> "idle", key |-> "", got |-> NoEntry]

DoneDown == [IdleDown EXCEPT !.pc = "done"]

-----------------------------------------------------------------------------
(* The state after construction: no file, an empty cache, no handler.      *)

BotInit ==
  /\ files = [p \in Paths |-> NoFile]
  /\ file_cache = [k \in Keys |-> NoEntry]
  /\ up = [u \in Uploads |-> IdleUp]
  /\ down = [d \in Downloads |-> IdleDown]
  /\ busy = 0
  /\ chain = NoChain

ClsOff ==
  /\ lines = <<>>
  /\ idx = 0
  /\ filtered_lines = <<>>
  /\ in_events = FALSE
  /\ cpc = "off"

Init == BotInit /\ ClsOff

-----------------------------------------------------------------------------
(* handle_file.                                                            *)

Quiet == busy = 0

StageFailedKeepsPath(name) == [path |-> OutputPath(name), name |-> ProperName(name)]

\* Lines 200, 204, 218: "return None, proper_name".
StageFailed(name) == [path |-> "", name |-> ProperName(name)]

\* Lines 230-232: "except Exception: return None, original_name".
Raised(name) == [path |-> "", name |-> name]

\* Line 228: "return output_path, proper_name".
Succeeded(name) == [path |-> OutputPath(name), name |-> ProperName(name)]

AfterExtractAlways(ok) == "classify"

\* Lines 198-200: the run goes on to the classifier only if extraction succeeded.
AfterExtract(ok) == IF ok THEN "classify" ELSE "returned"

\* Lines 202-204: the run goes on to the muxer only if classification succeeded.
AfterClassify(ok) == IF ok THEN "mux" ELSE "returned"

HasOutputAlways(ret) == TRUE

\* Line 263: "if not output_path".
HasOutput(ret) == ret.path # ""

InFlight ==
  Cardinality({u \in Uploads : up[u].pc \notin {"idle", "done"}})
    + Cardinality({d \in Downloads : down[d].pc \notin {"idle", "done"}})

\* Lines 238-253: the size check, the names, the first parse, the first reply.
\* Only a document's size is compared with MAX_FILE_SIZE.  big records that
\* the upload is larger than MAX_FILE_SIZE.
HandleFileStart(u, kind, big, name, fid) ==
  /\ Quiet
  /\ up[u].pc = "idle"
  /\ InFlight < MaxInFlight
  /\ \A v \in Uploads : v < u => up[v].pc # "idle"
  /\ name = NoName => kind = "video"
  /\ up' = [up EXCEPT ![u] =
              IF kind = "document" /\ big THEN [@ EXCEPT !.pc = "refused", !.big = big]
              ELSE IF ParseRaises(name) THEN [@ EXCEPT !.pc = "critical", !.big = big]
              ELSE [@ EXCEPT !.pc = "download", !.big = big, !.name = name, !.fid = fid]]
  /\ UNCHANGED <<files, file_cache, down, busy>>

\* Lines 239-240 and 310-312: the handler ends after its reply ("too large",
\* or "critical error" from the outer except clause).
ReplyAndReturn(u) ==
  /\ Quiet
  /\ up[u].pc \in {"refused", "critical"}
  /\ up' = [up EXCEPT ![u] = DoneUp]
  /\ UNCHANGED <<files, file_cache, down, busy>>

\* Line 256: await message.download(file_name=download_path); an exception
\* goes to the except clause of line 298.  The size is not read again.
MessageDownload(u) ==
  /\ Quiet
  /\ up[u].pc = "download"
  /\ \E ok \in BOOLEAN :
       IF ok
       THEN /\ files' = [files EXCEPT ![DownloadPath(up[u].name)] =
                           [kind |-> "input", by |-> u]]
            /\ up' = [up EXCEPT ![u].pc = "process", ![u].big = FALSE]
       ELSE /\ up' = [up EXCEPT ![u].pc = "notify", ![u].big = FALSE]
            /\ UNCHANGED files
  /\ UNCHANGED <<file_cache, down, busy>>

\* Lines 260-196: the handler resumes after edit_text and enters
\* process_anime_file, which computes its names and paths.
ProcessBegin(u) ==
  /\ Quiet
  /\ up[u].pc = "process"
  /\ busy' = u
  /\ up' = [up EXCEPT ![u].pc = "extract"]
  /\ UNCHANGED <<files, file_cache, down>>

\* Lines 198-200 with extract_subtitles (109-128): ok is exit status 0; a
\* non-zero status and a timeout both make it return False.  The decoder can
\* only succeed on an input that exists, and then has written its target.
Extract(u) ==
  /\ busy = u
  /\ up[u].pc = "extract"
  /\ \E ok \in BOOLEAN, wrote \in BOOLEAN :
       /\ ok => wrote
       /\ wrote => Exists(DownloadPath(up[u].name))
       /\ files' = IF wrote
                   THEN [files EXCEPT ![TempSub(up[u].name)] = [kind |-> "temp", by |-> u]]
                   ELSE files
       /\ up' = [up EXCEPT ![u].exInv = TRUE, ![u].exOk = ok,
                   ![u].pc = AfterExtract(ok),
                   ![u].ret = IF ok THEN @ ELSE StageFailed(up[u].name)]
  /\ UNCHANGED <<file_cache, down, busy>>

\* Lines 202-204 with create_sign_subtitles (130-185) as a stage: it returns
\* False on any I/O or decoding error, and can only succeed on an extracted
\* file that exists.
Classify(u) ==
  /\ busy = u
  /\ up[u].pc = "classify"
  /\ \E ok \in BOOLEAN, wrote \in BOOLEAN :
       /\ ok => wrote
       /\ wrote => Exists(TempSub(up[u].name))
       /\ files' = IF wrote
                   THEN [files EXCEPT ![TempSignSub(up[u].name)] = [kind |-> "sign", by |-> u]]
                   ELSE files
       /\ up' = [up EXCEPT ![u].clInv = TRUE, ![u].clOk = ok,
                   ![u].pc = AfterClassify(ok),
                   ![u].ret = IF ok THEN @ ELSE StageFailed(up[u].name)]
  /\ UNCHANGED <<file_cache, down, busy>>

\* Lines 206-218 and 230-232: mkvmerge through subprocess.run.  A non-zero
\* status returns (None, proper_name); a timeout raises TimeoutExpired, which
\* the except clause turns into (None, original_name).  The muxer can only
\* succeed on inputs that exist, and then has written its target; a failed
\* muxer may leave a partial target behind.
Remux(u) ==
  /\ busy = u
  /\ up[u].pc = "mux"
  /\ \E rc \in {"ok", "nonzero", "timeout"}, wrote \in BOOLEAN :
       /\ rc = "ok" => wrote
       /\ wrote => Exists(TempSignSub(up[u].name)) /\ Exists(DownloadPath(up[u].name))
       /\ files' = IF wrote
                   THEN [files EXCEPT ![OutputPath(up[u].name)] =
                           [kind |-> IF rc = "ok" THEN "output" ELSE "partial", by |-> u]]
                   ELSE files
       /\ up' = [up EXCEPT ![u].mxInv = TRUE, ![u].mxOk = (rc = "ok"),
                   ![u].raised = (rc = "timeout"),
                   ![u].pc = IF rc = "ok" THEN "cleanup" ELSE "returned",
                   ![u].ret = IF rc = "ok" THEN @
                              ELSE IF rc = "nonzero" THEN StageFailed(up[u].name)
                              ELSE Raised(up[u].name)]
  /\ UNCHANGED <<file_cache, down, busy>>

\* Lines 220-228: the temp files are removed on the success path only.
Cleanup(u) ==
  /\ busy = u
  /\ up[u].pc = "cleanup"
  /\ files' = Remove(Remove(files, TempSub(up[u].name)), TempSignSub(up[u].name))
  /\ up' = [up EXCEPT ![u].pc = "returned",
              ![u].ret = Succeeded(up[u].name)]
  /\ UNCHANGED <<file_cache, down, busy>>

\* The handler's locals after process_anime_file: only the names are read again.
AfterRun(r) == [IdleUp EXCEPT !.pc = "notify", !.name = r.name, !.fid = r.fid]

\* Lines 263-265: process_anime_file returned no output path.
FailNotify(u) ==
  /\ busy = u
  /\ up[u].pc = "returned"
  /\ ~HasOutput(up[u].ret)
  /\ up' = [up EXCEPT ![u] = AfterRun(@)]
  /\ busy' = 0
  /\ UNCHANGED <<files, file_cache, down>>

\* Lines 267-296: the entry is stored under the key of the file id, then the
\* handler awaits the reply with the download button.  by and good are the
\* history of the entry: the run that registered it, and whether all three
\* stages of that run had succeeded.
Register(u) ==
  /\ busy = u
  /\ up[u].pc = "returned"
  /\ HasOutput(up[u].ret)
  /\ file_cache' = [file_cache EXCEPT ![generate_file_key(up[u].fid)] =
                      [path |-> up[u].ret.path, name |-> up[u].ret.name, by |-> u,
                       good |-> up[u].exOk /\ up[u].clOk /\ up[u].mxOk]]
  /\ up' = [up EXCEPT ![u] = AfterRun(@)]
  /\ busy' = 0
  /\ UNCHANGED <<files, down>>

\* Lines 301-308: the finally clause removes the downloaded input.
Finally(u) ==
  /\ Quiet
  /\ up[u].pc = "notify"
  /\ files' = Remove(files, DownloadPath(up[u].name))
  /\ up' = [up EXCEPT ![u] = DoneUp]
  /\ UNCHANGED <<file_cache, down, busy>>

-----------------------------------------------------------------------------
(* handle_download.                                                        *)

ExpiredOnlyIfAbsent(cached_data) == cached_data = NoEntry

\* Line 320: "if not cached_data or not os.path.exists(cached_data[0])".
Expired(cached_data) == cached_data = NoEntry \/ ~Exists(cached_data.path)

\* Lines 317-325: the lookup and the existence check.
HandleDownloadStart(d, key) ==
  /\ Quiet
  /\ down[d].pc = "idle"
  /\ InFlight < MaxInFlight
  /\ \A e \in Downloads : e < d => down[e].pc # "idle"
  /\ LET cached_data == file_cache[key]
     IN  down' = [down EXCEPT ![d] =
                    IF Expired(cached_data)
                    THEN [@ EXCEPT !.pc = "expired", !.key = key]
                    ELSE [@ EXCEPT !.pc = "answer", !.key = key, !.got = cached_data]]
  /\ UNCHANGED <<files, file_cache, up, busy>>

\* Lines 321-322 and 348-350: the "File expired" answer; if the answer call
\* raises, the outer except clause handles it.
AnswerExpired(d) ==
  /\ Quiet
  /\ down[d].pc = "expired"
  /\ \E ok \in BOOLEAN :
       down' = [down EXCEPT ![d] = IF ok THEN DoneDown ELSE [@ EXCEPT !.pc = "error"]]
  /\ UNCHANGED <<files, file_cache, up, busy>>

\* Line 325 and 348-350: the "Preparing download" answer; if it raises, the
\* outer except clause takes over and nothing is cleaned up.
AnswerPreparing(d) ==
  /\ Quiet
  /\ down[d].pc = "answer"
  /\ \E ok \in BOOLEAN :
       down' = [down EXCEPT ![d].pc = IF ok THEN "send" ELSE "error"]
  /\ UNCHANGED <<files, file_cache, up, busy>>

\* Lines 348-350: the outer except clause answers "An error occurred".
ErrorAnswer(d) ==
  /\ Quiet
  /\ down[d].pc = "error"
  /\ down' = [down EXCEPT ![d] = DoneDown]
  /\ UNCHANGED <<files, file_cache, up, busy>>

\* Lines 329-333: reply_document opens the file; a missing file raises.
SendBegin(d) ==
  /\ Quiet
  /\ down[d].pc = "send"
  /\ down' = [down EXCEPT ![d].pc =
                IF Exists(down[d].got.path) THEN "sending" ELSE "failed"]
  /\ UNCHANGED <<files, file_cache, up, busy>>

\* Lines 339-346: the finally clause removes the file, and the entry that is
\* under the key now.
CleanedFiles(d) == Remove(files, down[d].got.path)

CleanedCache(d) == [file_cache EXCEPT ![down[d].key] = NoEntry]

\* Lines 329-346: the upload of the document ends; on success the finally
\* clause runs at once, on an exception the handler first awaits a reply.
SendEnd(d) ==
  /\ Quiet
  /\ down[d].pc = "sending"
  /\ \E ok \in BOOLEAN :
       IF ok
       THEN /\ down' = [down EXCEPT ![d] = DoneDown]
            /\ files' = CleanedFiles(d)
            /\ file_cache' = CleanedCache(d)
       ELSE /\ down' = [down EXCEPT ![d].pc = "failed"]
            /\ UNCHANGED <<files, file_cache>>
  /\ UNCHANGED <<up, busy>>

\* Lines 336-346: after the "Failed to send" reply the finally clause runs.
SendFailed(d) ==
  /\ Quiet
  /\ down[d].pc = "failed"
  /\ down' = [down EXCEPT ![d] = DoneDown]
  /\ files' = CleanedFiles(d)
  /\ file_cache' = CleanedCache(d)
  /\ UNCHANGED <<up, busy>>

-----------------------------------------------------------------------------
(* The bot: any interleaving of the handlers at their awaits.              *)

Kinds == {"document", "video"}

StartUpload ==
  \E u \in Uploads, kind \in Kinds, big \in BOOLEAN,
     name \in Names \cup {NoName}, fid \in FileIds :
       HandleFileStart(u, kind, big, name, fid)

StartDownload == \E d \in Downloads, key \in Keys : HandleDownloadStart(d, key)

Next ==
  \/ StartUpload /\ UNCHANGED <<chain, clsVars>>
  \/ StartDownload /\ UNCHANGED <<chain, clsVars>>
  \/ (\E u \in Uploads : ReplyAndReturn(u)) /\ UNCHANGED <<chain, clsVars>>
  \/ (\E u \in Uploads : MessageDownload(u)) /\ UNCHANGED <<chain, clsVars>>
  \/ (\E u \in Uploads : ProcessBegin(u)) /\ UNCHANGED <<chain, clsVars>>
  \/ (\E u \in Uploads : Extract(u)) /\ UNCHANGED <<chain, clsVars>>
  \/ (\E u \in Uploads : Classify(u)) /\ UNCHANGED <<chain, clsVars>>
  \/ (\E u \in Uploads : Remux(u)) /\ UNCHANGED <<chain, clsVars>>
  \/ (\E u \in Uploads : Cleanup(u)) /\ UNCHANGED <<chain, clsVars>>
  \/ (\E u \in Uploads : FailNotify(u)) /\ UNCHANGED <<chain, clsVars>>
  \/ (\E u \in Uploads : Register(u)) /\ UNCHANGED <<chain, clsVars>>
  \/ (\E u \in Uploads : Finally(u)) /\ UNCHANGED <<chain, clsVars>>
  \/ (\E d \in Downloads : AnswerExpired(d)) /\ UNCHANGED <<chain, clsVars>>
  \/ (\E d \in Downloads : AnswerPreparing(d)) /\ UNCHANGED <<chain, clsVars>>
  \/ (\E d \in Downloads : ErrorAnswer(d)) /\ UNCHANGED <<chain, clsVars>>
  \/ (\E d \in Downloads : SendBegin(d)) /\ UNCHANGED <<chain, clsVars>>
  \/ (\E d \in Downloads : SendEnd(d)) /\ UNCHANGED <<chain, clsVars>>
  \/ (\E d \in Downloads : SendFailed(d)) /\ UNCHANGED <<chain, clsVars>>

Spec == Init /\ [][Next]_vars

\* The upload handlers alone, in any interleaving at their awaits.
NextUp ==
  \/ StartUpload /\ UNCHANGED <<chain, clsVars>>
  \/ (\E u \in Uploads : ReplyAndReturn(u)) /\ UNCHANGED <<chain, clsVars>>
  \/ (\E u \in Uploads : MessageDownload(u)) /\ UNCHANGED <<chain, clsVars>>
  \/ (\E u \in Uploads : ProcessBegin(u)) /\ UNCHANGED <<chain, clsVars>>
  \/ (\E u \in Uploads : Extract(u)) /\ UNCHANGED <<chain, clsVars>>
  \/ (\E u \in Uploads : Classify(u)) /\ UNCHANGED <<chain, clsVars>>
  \/ (\E u \in Uploads : Remux(u)) /\ UNCHANGED <<chain, clsVars>>
  \/ (\E u \in Uploads : Cleanup(u)) /\ UNCHANGED <<chain, clsVars>>
  \/ (\E u \in Uploads : FailNotify(u)) /\ UNCHANGED <<chain, clsVars>>
  \/ (\E u \in Uploads : Register(u)) /\ UNCHANGED <<chain, clsVars>>
  \/ (\E u \in Uploads : Finally(u)) /\ UNCHANGED <<chain, clsVars>>

SpecUp == Init /\ [][NextUp]_vars

-----------------------------------------------------------------------------
(* Sequential executions: a handler starts only when no other is in        *)
(* flight.  chain is the history of a registration under a key directly    *)
(* followed by retrievals of that key: takes counts these retrievals, and  *)
(* any other handler, or a retrieval cut short by a failing answer call,   *)
(* ends the sequence.                                                      *)

NoneInFlight == InFlight = 0

ChainPut(u) ==
  [key |-> generate_file_key(up[u].fid), path |-> up[u].ret.path,
   name |-> up[u].ret.name, takes |-> 0]

ChainTake(key) ==
  IF chain.key = key /\ chain.takes < 2 THEN [chain EXCEPT !.takes = @ + 1] ELSE NoChain

NextSeq ==
  \/ NoneInFlight /\ StartUpload /\ chain' = NoChain /\ UNCHANGED clsVars
  \/ /\ NoneInFlight
     /\ \E d \in Downloads, key \in Keys :
          HandleDownloadStart(d, key) /\ chain' = ChainTake(key)
     /\ UNCHANGED clsVars
  \/ (\E u \in Uploads : ReplyAndReturn(u)) /\ UNCHANGED <<chain, clsVars>>
  \/ (\E u \in Uploads : MessageDownload(u)) /\ UNCHANGED <<chain, clsVars>>
  \/ (\E u \in Uploads : ProcessBegin(u)) /\ UNCHANGED <<chain, clsVars>>
  \/ (\E u \in Uploads : Extract(u)) /\ UNCHANGED <<chain, clsVars>>
  \/ (\E u \in Uploads : Classify(u)) /\ UNCHANGED <<chain, clsVars>>
  \/ (\E u \in Uploads : Remux(u)) /\ UNCHANGED <<chain, clsVars>>
  \/ (\E u \in Uploads : Cleanup(u)) /\ UNCHANGED <<chain, clsVars>>
  \/ (\E u \in Uploads : FailNotify(u)) /\ UNCHANGED <<chain, clsVars>>
  \/ (\E u \in Uploads : Register(u) /\ chain' = ChainPut(u)) /\ UNCHANGED clsVars
  \/ (\E u \in Uploads : Finally(u)) /\ UNCHANGED <<chain, clsVars>>
  \/ (\E d \in Downloads : AnswerExpired(d)) /\ UNCHANGED <<chain, clsVars>>
  \/ /\ \E d \in Downloads :
          AnswerPreparing(d) /\ chain' = IF down'[d].pc = "error" THEN NoChain ELSE chain
     /\ UNCHANGED clsVars
  \/ (\E d \in Downloads : ErrorAnswer(d)) /\ UNCHANGED <<chain, clsVars>>
  \/ (\E d \in Downloads : SendBegin(d)) /\ UNCHANGED <<chain, clsVars>>
  \/ (\E d \in Downloads : SendEnd(d)) /\ UNCHANGED <<chain, clsVars>>
  \/ (\E d \in Downloads : SendFailed(d)) /\ UNCHANGED <<chain, clsVars>>

SpecSeq == Init /\ [][NextSeq]_vars

\* C1: in a sequential execution, the first retrieval of key k after an
\* artifact (p, n) was registered under k obtains exactly (p, n) for sending,
\* and the retrieval of k after that one reports "File expired".
PutTakeTake ==
  \A d \in Downloads :
    down[d].pc \in {"answer", "expired"} /\ chain.key = down[d].key =>
      /\ chain.takes = 1 =>
           /\ down[d].pc = "answer"
           /\ down[d].got.path = chain.path
           /\ down[d].got.name = chain.name
      /\ chain.takes = 2 => down[d].pc = "expired"

-----------------------------------------------------------------------------
(* Properties of the handlers and of the pipeline.                         *)

Holding(d) == down[d].pc \in {"answer", "send", "sending", "failed"}

\* C2: of the retrieval handlers for one key, at most one obtains a given
\* registered entry; the others report "File expired".
SingleShotTake ==
  \A d1, d2 \in Downloads :
    d1 # d2 /\ Holding(d1) /\ Holding(d2) /\ down[d1].key = down[d2].key
      => down[d1].got # down[d2].got

AllOk(r) == r.exOk /\ r.clOk /\ r.mxOk

\* C3: when process_anime_file returns, on every exit path, neither the
\* extracted temp_*.ass nor the filtered sign_*.ass that the run created
\* still exists.
TempFilesGoneAtReturn ==
  \A u \in Uploads :
    up[u].pc = "returned" =>
      /\ files[TempSub(up[u].name)].by # u
      /\ files[TempSignSub(up[u].name)].by # u

CacheOnlyGoodRuns == \A k \in Keys : file_cache[k] # NoEntry => file_cache[k].good

\* C4: every cache entry was registered by a run whose extraction,
\* classification and remux all succeeded, with the output file that run
\* wrote; a run in which a stage failed or raised leaves the cache as it is.
RegisteredOnlyBySuccess ==
  /\ []CacheOnlyGoodRuns
  /\ [][/\ \A k \in Keys :
             file_cache'[k] # file_cache[k] /\ file_cache'[k] # NoEntry =>
               /\ up[file_cache'[k].by].pc = "returned"
               /\ AllOk(up[file_cache'[k].by])
               /\ files[file_cache'[k].path] =
                    [kind |-> "output", by |-> file_cache'[k].by]
        /\ \A u \in Uploads :
             up[u].pc = "returned" /\ ~AllOk(up[u]) => file_cache' = file_cache]_vars

RegisteredWhileFailedRunReturns ==
  /\ \E k \in Keys : file_cache[k] # NoEntry
  /\ \E u \in Uploads : up[u].pc = "returned" /\ up[u].mxInv /\ ~up[u].mxOk

\* C5: the stages run in the order extract, classify, remux, and the run
\* stops at the first failing stage: the classifier is invoked only after a
\* successful extraction, the muxer only after a successful classification.
StagesInOrder ==
  \A u \in Uploads :
    /\ up[u].clInv => up[u].exInv /\ up[u].exOk
    /\ up[u].mxInv => up[u].clInv /\ up[u].exOk /\ up[u].clOk
    /\ up[u].pc = "classify" => up[u].exOk
    /\ up[u].pc = "mux" => up[u].exOk /\ up[u].clOk

StoppedAtFailedStage ==
  \E u \in Uploads :
    up[u].pc = "returned" /\ up[u].exInv /\ ~up[u].exOk /\ ~up[u].clInv /\ ~up[u].mxInv

\* C6: process_anime_file always returns a result: the output path is set
\* exactly when all three stages succeeded, and the display name is always
\* set (the canonical name, or the original name when an exception was
\* caught).
ResultContract ==
  \A u \in Uploads :
    /\ busy = u => up[u].pc \in {"extract", "classify", "mux", "cleanup", "returned"}
    /\ up[u].pc = "returned" =>
         /\ up[u].ret # NoRet
         /\ up[u].ret.name # ""
         /\ (up[u].ret.path # "") <=> AllOk(up[u])
         /\ AllOk(up[u]) => up[u].ret = Succeeded(up[u].name)
         /\ up[u].raised => up[u].ret.name = up[u].name
         /\ ~AllOk(up[u]) => up[u].ret.name \in {ProperName(up[u].name), up[u].name}

ReturnedAfterTimeout ==
  \E u \in Uploads :
    up[u].pc = "returned" /\ up[u].raised /\ up[u].ret = Raised(up[u].name)

\* C7: an upload larger than the maximum, document or video, is refused and
\* its download is never started.
OversizeRefused == \A u \in Uploads : up[u].big => up[u].pc # "download"

-----------------------------------------------------------------------------
(* create_sign_subtitles: the line loop.                                   *)

MaxLines == 3

EventsHeader == <<"[", "E", "v", "e", "n", "t", "s", "]">>

DialogueMarker == <<"D", "i", "a", "l", "o", "g", "u", "e", ":">>

\* Lines 134-136.
style_keywords == {<<"s", "i", "g", "n">>, <<"s", "i", "g", "n", "s">>, <<"o", "v", "e", "r", "l", "a", "y">>, <<"t", "e", "x", "t">>, <<"c", "a", "p", "t", "i", "o", "n">>}

effect_keywords == {<<"\\", "a", "n">>, <<"\\", "p", "o", "s">>, <<"\\", "m", "o", "v", "e">>, <<"\\", "f", "a", "d">>}

actor_keywords == {<<"s", "i", "g", "n">>, <<"s", "i", "g", "n", "s">>}

\* str.split(',', maxsplit)
RECURSIVE SplitComma(_, _)
SplitComma(s, maxsplit) ==
  IF maxsplit = 0 \/ ~(\E i \in 1..Len(s) : s[i] = ",") THEN <<s>>
  ELSE LET i == CHOOSE j \in 1..Len(s) : s[j] = "," /\ \A k \in 1..(j - 1) : s[k] # ","
       IN  <<SubSeq(s, 1, i - 1)>> \o SplitComma(SubSeq(s, i + 1, Len(s)), maxsplit - 1)

NormalizeLower(raw) == LowerStr(Strip(raw))

\* Line 147: line = line.strip()
Normalize(raw) == Strip(raw)

\* Lines 162-172: the filter condition on the ten fields.
IsSign(parts) ==
  LET style  == LowerStr(Strip(parts[4]))
      name   == LowerStr(Strip(parts[5]))
      effect == Strip(parts[9])
      text   == Strip(parts[10])
  IN  \/ \E kw \in style_keywords : Contains(style, LowerStr(kw))
      \/ \E kw \in actor_keywords : Contains(name, LowerStr(kw))
      \/ \E kw \in effect_keywords : Contains(effect, kw)
      \/ \E kw \in effect_keywords : Contains(text, kw)

SkippedEmitted(line) == <<line>>

\* Lines 159-160: "if len(parts) < 10: continue" appends nothing.
Skipped(line) == <<>>

\* Lines 146-173: one pass of the loop body on a raw line, from the section
\* flag before it: the flag after it and the lines appended to filtered_lines.
ClassifyLine(flag, raw) ==
  LET line == Normalize(raw)
  IN  IF StartsWith(line, EventsHeader) THEN [in_events |-> TRUE, out |-> <<line>>]
      ELSE IF StartsWith(line, <<"[">>) THEN [in_events |-> FALSE, out |-> <<line>>]
      ELSE IF flag /\ StartsWith(line, DialogueMarker)
        THEN LET parts == SplitComma(line, 9)
             IN  IF Len(parts) < 10 THEN [in_events |-> flag, out |-> Skipped(line)]
                 ELSE IF IsSign(parts) THEN [in_events |-> flag, out |-> <<line>>]
                 ELSE [in_events |-> flag, out |-> <<>>]
      ELSE [in_events |-> flag, out |-> <<>>]

\* A Dialogue line with the given style, name, effect and text fields.
Dlg(style, name, effect, text) ==
  DialogueMarker \o <<" ", "0", ",", "1", ",", "2", ",">> \o style \o <<",">> \o name
    \o <<",", "0", ",", "0", ",", "0", ",">> \o effect \o <<",">> \o text

\* The lines the documents of the model are made of.
LinePool ==
  { EventsHeader,
    <<" ", "[", "E", "v", "e", "n", "t", "s", "]", " ">>,
    <<"[", "F", "o", "n", "t", "s", "]">>,
    <<"F", "o", "r", "m", "a", "t", ":", " ", "x">>,
    <<>>,
    Dlg(<<"S", "i", "g", "n">>, <<>>, <<>>, <<"h", "i">>),
    Dlg(<<"S", "I", "G", "N">>, <<>>, <<>>, <<"h", "i">>),
    Dlg(<<"D", "e", "f", "a", "u", "l", "t">>, <<"N", "a", "r", "r", "a", "t", "o", "r">>, <<>>, <<"H", "e", "l", "l", "o">>),
    Dlg(<<"D", "e", "f", "a", "u", "l", "t">>, <<>>, <<>>, <<"{", "\\", "p", "o", "s", "(", "1", ",", "2", ")", "}", "x">>),
    Dlg(<<"D", "e", "f", "a", "u", "l", "t">>, <<>>, <<"\\", "P", "O", "S">>, <<"h", "i">>),
    Dlg(<<"D", "e", "f", "a", "u", "l", "t">>, <<>>, <<"\\", "p", "o", "s">>, <<"h", "i">>),
    Dlg(<<"D", "e", "f", "a", "u", "l", "t">>, <<"s", "i", "g", "n", "s">>, <<>>, <<"h", "i", " ">>),
    DialogueMarker \o <<" ", "0", ",", "1", ",", "2", ",", "S", "i", "g", "n">> }

\* content.split('\n') is never empty: it has at least one (maybe empty) line.
Documents == UNION {[1..n -> LinePool] : n \in 1..MaxLines}

ClsInit ==
  /\ lines \in Documents
  /\ idx = 1
  /\ filtered_lines = <<>>
  /\ in_events = FALSE
  /\ cpc = "loop"

\* Lines 145-177: one iteration of "for line in lines".
ProcessLine ==
  /\ cpc = "loop"
  /\ idx <= Len(lines)
  /\ LET r == ClassifyLine(in_events, lines[idx])
     IN  /\ in_events' = r.in_events
         /\ filtered_lines' = filtered_lines \o r.out
  /\ idx' = idx + 1
  /\ UNCHANGED <<lines, cpc>>

\* Lines 179-181: the loop is over and the emitted lines are written.
WriteOutput ==
  /\ cpc = "loop"
  /\ idx > Len(lines)
  /\ cpc' = "done"
  /\ UNCHANGED <<lines, idx, filtered_lines, in_events>>

NextCls ==
  \/ ProcessLine /\ UNCHANGED botVars
  \/ WriteOutput /\ UNCHANGED botVars

InitCls == BotInit /\ ClsInit

SpecCls == InitCls /\ [][NextCls]_vars

-----------------------------------------------------------------------------
(* Properties of the classifier.                                           *)

\* a is a subsequence of b: a is b with some elements left out.
RECURSIVE IsSubseq(_, _)
IsSubseq(a, b) ==
  IF a = <<>> THEN TRUE
  ELSE IF b = <<>> THEN FALSE
  ELSE IF Head(a) = Head(b) THEN IsSubseq(Tail(a), Tail(b))
  ELSE IsSubseq(a, Tail(b))

IsHeaderLine(l) == StartsWith(l, <<"[">>)

IsDialogueLine(l) == StartsWith(l, DialogueMarker)

StrippedLines == [i \in 1..Len(lines) |-> Strip(lines[i])]

\* C8: the output contains every section-header line and every non-Dialogue
\* line of the input, in their original order.  The lines are compared
\* without their leading and trailing whitespace, and blank lines are left
\* out, so that only a line that is missing from the output violates this.
HeadersAndOtherLinesKept ==
  cpc = "done" =>
    IsSubseq(SelectSeq(StrippedLines,
                       LAMBDA l : l # <<>> /\ (IsHeaderLine(l) \/ ~IsDialogueLine(l))),
             filtered_lines)

\* The section a line is in: TRUE if the last header line before position i
\* names the Events section.
RECURSIVE InEventsAt(_)
InEventsAt(i) ==
  IF i = 1 THEN FALSE
  ELSE IF StartsWith(Strip(lines[i - 1]), EventsHeader) THEN TRUE
  ELSE IF IsHeaderLine(Strip(lines[i - 1])) THEN FALSE
  ELSE InEventsAt(i - 1)

RECURSIVE DialoguesOutsideEvents(_)
DialoguesOutsideEvents(i) ==
  IF i > Len(lines) THEN <<>>
  ELSE (IF IsDialogueLine(Strip(lines[i])) /\ ~InEventsAt(i)
          THEN <<Strip(lines[i])>> ELSE <<>>)
         \o DialoguesOutsideEvents(i + 1)

\* C9: every Dialogue line that occurs outside the Events section is passed
\* through to the output (compared without leading and trailing whitespace).
DialogueOutsideEventsKept ==
  cpc = "done" => IsSubseq(DialoguesOutsideEvents(1), filtered_lines)

-----------------------------------------------------------------------------
(* The keep/drop decision on Dialogue lines.                               *)

Emitted(i) == \E j \in 1..Len(filtered_lines) : filtered_lines[j] = Strip(lines[i])

\* A Dialogue line of the Events section with all ten fields.
WellFormedEvent(i) ==
  /\ InEventsAt(i)
  /\ IsDialogueLine(Strip(lines[i]))
  /\ Len(SplitComma(Strip(lines[i]), 9)) = 10

\* The sign condition as specified: substring match of the keyword sets,
\* without regard to letter case, in the style, name, effect and text fields.
MatchesKeyword(parts) ==
  LET field(n) == LowerStr(Strip(parts[n]))
  IN  \/ \E kw \in style_keywords : Contains(field(4), kw)
      \/ \E kw \in actor_keywords : Contains(field(5), kw)
      \/ \E kw \in effect_keywords : Contains(field(9), kw)
      \/ \E kw \in effect_keywords : Contains(field(10), kw)

\* C11: a ten-field Dialogue line of the Events section is in the output if
\* and only if its style contains a style keyword, or its name contains
\* sign/signs, or its effect or its text contains one of the tag markers
\* \an, \pos, \move, \fad; a line that matches none of these is dropped.
KeptIffKeywordMatches ==
  cpc = "done" =>
    \A i \in 1..Len(lines) :
      WellFormedEvent(i) =>
        (Emitted(i) <=> MatchesKeyword(SplitComma(Strip(lines[i]), 9)))

\* C12: two Dialogue events of the Events section that differ only in the
\* letter case of their fields get the same keep/drop decision.
CaseInsensitiveDecision ==
  cpc = "done" =>
    \A i, j \in 1..Len(lines) :
      /\ WellFormedEvent(i)
      /\ WellFormedEvent(j)
      /\ LowerStr(Strip(lines[i])) = LowerStr(Strip(lines[j]))
      => (Emitted(i) <=> Emitted(j))

Malformed(i) ==
  /\ IsDialogueLine(Strip(lines[i]))
  /\ Len(SplitComma(Strip(lines[i]), 9)) < 10

\* C13: a Dialogue line with fewer than ten comma-separated fields is absent
\* from the output, and the loop goes on with the lines after it: the step
\* on such a line appends nothing and moves to the next line, every line is
\* processed before the output is written, and a section header is emitted
\* whatever came before it.
MalformedDroppedAndLoopContinues ==
  /\ [](cpc \in {"loop", "done"} =>
          /\ \A i \in 1..Len(lines) : Malformed(i) => ~Emitted(i)
          /\ \A i \in 1..(idx - 1) : IsHeaderLine(Strip(lines[i])) => Emitted(i)
          /\ cpc = "done" => idx = Len(lines) + 1)
  /\ [][cpc = "loop" /\ idx <= Len(lines) /\ Malformed(idx) =>
          /\ filtered_lines' = filtered_lines
          /\ in_events' = in_events
          /\ idx' = idx + 1
          /\ cpc' = "loop"]_vars

MalformedSkippedThenLineKept ==
  /\ cpc = "done"
  /\ Len(lines) = 3
  /\ Malformed(2) /\ InEventsAt(2)
  /\ WellFormedEvent(3) /\ Emitted(3)
  /\ Len(filtered_lines) = 2

-----------------------------------------------------------------------------
(* Further properties of the handlers.                                     *)

\* The handler of an upload whose file name the metadata parser rejected.
ParseFailed(u) == up[u].pc = "critical"

\* C14: when the metadata parser raises for an upload, the run still
\* attempts subtitle extraction: such a handler never ends before the
\* extraction stage was invoked.
ParseFailureStillExtracts ==
  [][\A u \in Uploads : ParseFailed(u) /\ up'[u].pc = "done" => up[u].exInv]_vars

\* The entry under k is one a retrieval would accept (line 320).
ValidEntry(k) == file_cache[k] # NoEntry /\ Exists(file_cache[k].path)

\* C15: the file referenced by an entry that a retrieval would accept is the
\* output written by the run that registered the entry: no other request
\* has overwritten or replaced it, also when two uploads with different keys
\* have the same canonical output name.
ArtifactIsOwnOutput ==
  \A k \in Keys :
    ValidEntry(k) =>
      files[file_cache[k].path] = [kind |-> "output", by |-> file_cache[k].by]

\* The retrieval handler d changes position in this step.
Moves(d) == down'[d] # down[d]

InToolCall(u) == busy = u /\ up[u].pc \in {"extract", "mux"}

\* A further request can be taken on: a handler slot and a worker are free.
CanAccept ==
  /\ InFlight < MaxInFlight
  /\ \/ \E u \in Uploads : up[u].pc = "idle"
     \/ \E d \in Downloads : down[d].pc = "idle"

\* C17: while the decoder or muxer invocation of one request is in
\* progress, another incoming request can be accepted and its handler can
\* start: the tool call does not block the other handlers until it returns.
ToolCallDoesNotBlock ==
  \A u \in Uploads :
    InToolCall(u) /\ CanAccept => ENABLED (StartUpload \/ StartDownload)

\* The run of u still needs its downloaded input: between the download and
\* the end of the muxer invocation.
UsesInput(u) == up[u].pc \in {"process", "extract", "classify", "mux"}

\* C18: upload requests in flight at the same time do not interfere: while
\* a run still uses its downloaded input, the file at its download path is
\* the one it downloaded; no other run has overwritten or removed it (also
\* when both uploads have the same original file name).
OwnInputIntact ==
  \A u \in Uploads :
    UsesInput(u) => files[DownloadPath(up[u].name)] = [kind |-> "input", by |-> u]

\* The handler u has registered the entry that is under its key.
RegisteredBy(u) ==
  /\ up[u].pc = "notify"
  /\ up[u].fid # ""
  /\ file_cache[generate_file_key(up[u].fid)].by = u

\* C19: when handle_file finishes after registering an artifact, the file of
\* that artifact still exists: the removal of the downloaded input in the
\* finally clause does not remove it, also when the download path and the
\* output path coincide.
FinallyKeepsRegisteredArtifact ==
  [][\A u \in Uploads :
       RegisteredBy(u) /\ up'[u].pc = "done" =>
         files'[file_cache[generate_file_key(up[u].fid)].path] # NoFile]_vars

\* C20: once a retrieval has found a valid entry for its key, then when the
\* handler finishes, the entry under the key and the artifact file are both
\* gone, whether the send succeeded or raised.
FoundEntryGoneAtFinish ==
  [][\A d \in Downloads :
       down[d].got # NoEntry /\ down[d].pc # "done" /\ down'[d].pc = "done" =>
         /\ file_cache'[down[d].key] = NoEntry
         /\ files'[down[d].got.path] = NoFile]_vars

====
